---- MODULE Spec2Model ----
(***************************************************************************)
(* State-machine model of FireBaseStorageClient (src/fireBaseStorage.py).  *)
(*                                                                         *)
(* Strings (file names, paths, bucket keys) are sequences of one-character *)
(* strings, so that os.path.split, os.path.join and the regular expression *)
(* of _archive_file are computed character by character.  The local disk   *)
(* is a function from existing file paths to file contents, the bucket a   *)
(* function from existing keys to contents.  A content is either raw data  *)
(* or a tar.gz archive holding a sequence of (name, content) entries.      *)
(*                                                                         *)
(* The client is synchronous and single-threaded: every method is one      *)
(* action.  Each action records the call, its outcome and the state it     *)
(* started from in `last` (the call before it moves to `prev`).            *)
(***************************************************************************)
EXTENDS Integers, Sequences, FiniteSets, TLC

VARIABLES folder,       \* self.folder
          disk,         \* local files: path -> content
          dirs,         \* local directories that exist
          bucket,       \* self.bucket: key -> content
          handles,      \* archive handles that are open (paths they were opened on)
          last,         \* record of the most recent call
          prev,         \* record of the call before it
          nops          \* number of calls made so far

vars == <<folder, disk, dirs, bucket, handles, last, prev, nops>>

\* Number of client calls explored in one behaviour.
MaxOps == 2

-----------------------------------------------------------------------------
(* Strings *)

WordChars == {"a", "c", "d", "f", "g", "r", "t", "z"}

IsWord(c) == c \in WordChars

TARGZ == <<".", "t", "a", "r", ".", "g", "z">>

RC == <<"r", ".", "c">>            \* "r.c"      : a name with a conventional extension
RTGZ == <<"r">> \o TARGZ           \* "r.tar.gz"
A1 == <<"a">>                      \* "a"        : a name the regular expression does not match
CWD == <<>>                        \* ""         : head of a path without directory part
D == <<"d">>                       \* "d"        : a directory below the working directory
F == <<"f">>                       \* "f"        : a folder name in the bucket
NoFolder == <<"<None>">>           \* Python's None as value of the folder attribute

\* Index of the last "/" of s, 0 when there is none.
LastSlash(s) ==
    IF \E i \in 1..Len(s) : s[i] = "/"
    THEN CHOOSE i \in 1..Len(s) : s[i] = "/" /\ \A j \in (i+1)..Len(s) : s[j] # "/"
    ELSE 0

\* str.rstrip('/')
RECURSIVE RStripSlash(_)
RStripSlash(s) ==
    IF s # <<>> /\ s[Len(s)] = "/" THEN RStripSlash(SubSeq(s, 1, Len(s) - 1)) ELSE s

\* os.path.split (posixpath): <<head, tail>>
Split(p) ==
    LET i == LastSlash(p)
        head == SubSeq(p, 1, i)
        tail == SubSeq(p, i + 1, Len(p))
    IN  <<IF \A k \in 1..Len(head) : head[k] = "/" THEN head ELSE RStripSlash(head), tail>>

\* os.path.basename
Basename(p) == Split(p)[2]

\* os.path.join (posixpath) of two components
Join(a, b) ==
    IF b # <<>> /\ b[1] = "/" THEN b
    ELSE IF a = <<>> \/ a[Len(a)] = "/" THEN a \o b
    ELSE a \o <<"/">> \o b

\* The pattern r'.\w+$' matches at position p: any character at p, then one or
\* more word characters up to the end of the string.
MatchAt(s, p) == p < Len(s) /\ \A i \in (p+1)..Len(s) : IsWord(s[i])

\* re.sub(r'.\w+$', '.tar.gz', tail): the leftmost match is replaced
ReSub(s) ==
    IF \E p \in 1..Len(s) : MatchAt(s, p)
    THEN LET p == CHOOSE q \in 1..Len(s) : MatchAt(s, q) /\ \A k \in 1..(q-1) : ~MatchAt(s, k)
         IN  SubSeq(s, 1, p - 1) \o TARGZ
    ELSE s

-----------------------------------------------------------------------------
(* File contents *)

Raw(d) == [kind |-> "raw", data |-> d, entries |-> <<>>]
Tar(es) == [kind |-> "tar", data |-> "", entries |-> es]
Entry(n, c) == [name |-> n, content |-> c]

\* A file that was created or truncated for writing and never completed.
Partial == Raw("partial")
\* A file opened for writing into which nothing was written.
EmptyFile == Raw("")

\* dict-like update and removal on disk and bucket
Put(f, k, v) == [x \in DOMAIN f \cup {k} |-> IF x = k THEN v ELSE f[x]]
Del(f, k) == [x \in DOMAIN f \ {k} |-> f[x]]

NoErr == ""

\* Outcome of a method or of a step of it: the state it leaves, the error it
\* raises (NoErr when it returns), the value it returns, the handles it opened
\* and has not closed, the value of upload_file's local `tar`, and whether
\* _extract was entered.
Out(st, err, ret, leaked) ==
    [st |-> st, err |-> err, ret |-> ret, leaked |-> leaked, tar |-> <<>>, extracted |-> FALSE]

\* The part of the program state the methods read and write.
State(dk, ds, bk, hs) == [disk |-> dk, dirs |-> ds, bucket |-> bk, handles |-> hs]

Exists(st, p) == p \in DOMAIN st.disk \/ p \in st.dirs

\* open(p, 'w'): creates or truncates the file at p
Truncate(st, p) == [st EXCEPT !.disk = Put(st.disk, p, Partial)]

\* if os.path.exists(p): os.remove(p)
RemoveIfExists(st, p) ==
    IF p \in DOMAIN st.disk THEN [st EXCEPT !.disk = Del(st.disk, p)] ELSE st

OpenHandle(st, p) == [st EXCEPT !.handles = st.handles \cup {p}]
CloseHandle(st, p) == [st EXCEPT !.handles = st.handles \ {p}]

-----------------------------------------------------------------------------
(* _archive_file *)

\* Variant: the member is stored under the whole path (no arcname).
AddedEntries_FullPath(st, path, out) ==
    IF path = out THEN <<>> ELSE <<Entry(path, st.disk[path])>>

\* tar.add(path, arcname=os.path.basename(path)) on the archive opened at out:
\* tarfile does not add the archive to itself.
AddedEntries(st, path, out) ==
    IF path = out THEN <<>> ELSE <<Entry(Basename(path), st.disk[path])>>

ArchiveFile(st, path) ==
    LET head == Split(path)[1]
        tail == Split(path)[2]
        output_filename == ReSub(tail)
        out == Join(head, output_filename)
    IN  IF head \notin st.dirs
        THEN Out(st, "OSNoSuchFile", <<>>, {})
        ELSE LET opened == OpenHandle(Truncate(st, out), out)
             IN  IF path \notin DOMAIN opened.disk
                 THEN Out(opened, "OSNoSuchFile", <<>>, {out})
                 ELSE LET written == [opened EXCEPT
                                        !.disk = Put(opened.disk, out,
                                                     Tar(AddedEntries(opened, path, out)))]
                      IN  Out(CloseHandle(written, out), NoErr, out, {})

-----------------------------------------------------------------------------
(* _extract *)

\* tf.extractall(path=head) of an archive with the single entry e, opened at
\* path.  When the entry's target is the archive file itself, the archive is
\* truncated while it is being read: the copy either completes from data
\* already buffered (selfOk) or fails with EOFError.
ExtractAll(st, path, head, e, selfOk) ==
    LET target == Join(head, e.name)
    IN  IF target = path /\ ~selfOk
        THEN Out([st EXCEPT !.disk = Put(st.disk, target, Partial)], "EOFError", <<>>, {path})
        ELSE Out([st EXCEPT !.disk = Put(st.disk, target, e.content)], NoErr, <<>>, {path})

\* Variant: the archive is removed before the error is raised.
ShapeError_Cleanup(opened, path) ==
    Out(RemoveIfExists(opened, path), "ArchiveShape", <<>>, {path})

\* lines 72-73: the archive does not hold exactly one member
ShapeError(opened, path) == Out(opened, "ArchiveShape", <<>>, {path})

\* Variant: the member's name is returned without the directory.
ExtractReturn_NameOnly(head, filename) == filename

\* os.path.join(head, filename) at the return of _extract
ExtractReturn(head, filename) == Join(head, filename)

Extract(st, path, selfOk) ==
    LET head == Split(path)[1]
    IN  IF path \notin DOMAIN st.disk
        THEN Out(st, "OSNoSuchFile", <<>>, {})
        ELSE IF st.disk[path].kind # "tar"
        THEN Out(st, "ReadError", <<>>, {})
        ELSE LET opened == OpenHandle(st, path)
                 members == st.disk[path].entries
             IN  IF Len(members) # 1
                 THEN ShapeError(opened, path)
                 ELSE LET filename == members[1].name
                          x == ExtractAll(opened, path, head, members[1], selfOk)
                      IN  IF x.err # NoErr
                          THEN x
                          ELSE Out(RemoveIfExists(CloseHandle(x.st, path), path),
                                   NoErr, ExtractReturn(head, filename), {})

-----------------------------------------------------------------------------
(* upload_file *)

\* `if self.folder:` is false for None and for the empty string
Truthy(fld) == fld # NoFolder /\ fld # <<>>

\* Variant: the folder is not prepended to the key.
RemoteKey_NoFolder(fld, file_name) == file_name

\* lines 92-95: the key of the object
RemoteKey(fld, file_name) ==
    IF Truthy(fld) THEN fld \o <<"/">> \o file_name ELSE file_name

\* blob.upload_from_filename(tar): reads the local file and stores its bytes
\* under the key, replacing what was there; fails when the file cannot be
\* read or when the transfer fails.
UploadFromFilename(st, url, tar, fails) ==
    IF tar \notin DOMAIN st.disk THEN Out(st, "OSNoSuchFile", <<>>, {})
    ELSE IF fails THEN Out(st, "TransferError", <<>>, {})
    ELSE Out([st EXCEPT !.bucket = Put(st.bucket, url, st.disk[tar])], NoErr, <<>>, {})

\* Variant: only the source file is removed, the transfer unit is kept.
UploadCleanup_KeepTar(st, file, tar) == RemoveIfExists(st, file)

\* lines 100-103
UploadCleanup(st, file, tar) == RemoveIfExists(RemoveIfExists(st, file), tar)

\* Variant: the local cleanup runs also when the transfer raises (try/finally).
UploadFile_Finally(st, fld, file, archive, fails) ==
    LET a == IF archive THEN ArchiveFile(st, file) ELSE Out(st, NoErr, file, {})
    IN  IF a.err # NoErr
        THEN a
        ELSE LET tar == a.ret
                 url == RemoteKey(fld, Split(tar)[2])
                 t == UploadFromFilename(a.st, url, tar, fails)
             IN  [Out(UploadCleanup(t.st, file, tar), t.err,
                      IF t.err = NoErr THEN url ELSE <<>>, {}) EXCEPT !.tar = tar]

UploadFile(st, fld, file, archive, fails) ==
    LET a == IF archive THEN ArchiveFile(st, file) ELSE Out(st, NoErr, file, {})
    IN  IF a.err # NoErr
        THEN a
        ELSE LET tar == a.ret
                 file_name == Split(tar)[2]
                 url == RemoteKey(fld, file_name)
                 t == UploadFromFilename(a.st, url, tar, fails)
             IN  IF t.err # NoErr
                 THEN [t EXCEPT !.tar = tar]
                 ELSE [Out(UploadCleanup(t.st, file, tar), NoErr, url, {}) EXCEPT !.tar = tar]

-----------------------------------------------------------------------------
(* download_file *)

\* lines 119-120
MakeDir(st, to_path) ==
    IF Exists(st, to_path) THEN st ELSE [st EXCEPT !.dirs = st.dirs \cup {to_path}]

\* blob.download_to_filename(path): the SDK opens the local file for writing
\* and then fetches the object.  When the object does not exist it raises
\* NotFound; the file it opened is left empty on disk or removed, depending
\* on the version of the SDK (keepsFile).
DownloadToFilename(st, url, path, keepsFile) ==
    LET created == [st EXCEPT !.disk = Put(st.disk, path, EmptyFile)]
    IN  IF url \in DOMAIN st.bucket
        THEN Out([st EXCEPT !.disk = Put(st.disk, path, st.bucket[url])], NoErr, <<>>, {})
        ELSE IF keepsFile
        THEN Out(created, "NotFound", <<>>, {})
        ELSE Out(RemoveIfExists(created, path), "NotFound", <<>>, {})

\* Variant: the whole key, not its base name, is joined to the directory.
LocalPath_FullUrl(url, to_path) == Join(to_path, url)

\* lines 121-122
LocalPath(url, to_path) == Join(to_path, Split(url)[2])

\* Variant: the SDK's NotFound is not caught.
DownloadFile_NoCatch(st, url, to_path, extract, keepsFile, selfOk) ==
    LET made == MakeDir(st, to_path)
        path == LocalPath(url, to_path)
        d == DownloadToFilename(made, url, path, keepsFile)
    IN  IF d.err # NoErr
        THEN d
        ELSE IF extract
        THEN [Extract(d.st, path, selfOk) EXCEPT !.extracted = TRUE]
        ELSE Out(d.st, NoErr, path, {})

DownloadFile(st, url, to_path, extract, keepsFile, selfOk) ==
    LET made == MakeDir(st, to_path)
        path == LocalPath(url, to_path)
        d == DownloadToFilename(made, url, path, keepsFile)
    IN  IF d.err = "NotFound"
        THEN Out(d.st, "NotFoundOnServer", <<>>, {})
        ELSE IF extract
        THEN [Extract(d.st, path, selfOk) EXCEPT !.extracted = TRUE]
        ELSE Out(d.st, NoErr, path, {})

-----------------------------------------------------------------------------
(* delete_file *)

\* blob.delete(): raises NotFound when there is no such object
DeleteFile(st, url) ==
    IF url \in DOMAIN st.bucket
    THEN Out([st EXCEPT !.bucket = Del(st.bucket, url)], NoErr, <<>>, {})
    ELSE Out(st, "NotFound", <<>>, {})

-----------------------------------------------------------------------------
(* Initial states and inputs *)

D1 == Raw("d1")
D2 == Raw("d2")

Folders == {NoFolder, <<>>, F}

\* Archives found on disk or in the bucket before the first call: with a
\* single entry named like the archive file, with no entry, with two entries.
TarSelf == Tar(<<Entry(RTGZ, D1)>>)
TarNone == Tar(<<>>)
TarTwo == Tar(<<Entry(RC, D1), Entry(A1, D2)>>)

InitDisks ==
    { [disk |-> (RC :> D1) @@ (A1 :> D2), dirs |-> {CWD}],
      [disk |-> (RC :> D1) @@ (Join(D, RTGZ) :> TarSelf) @@ (Join(D, A1) :> TarNone)
                  @@ (Join(D, RC) :> TarTwo),
       dirs |-> {CWD, D}] }

InitBuckets ==
    { [k \in {} |-> D1],
      (RTGZ :> TarSelf) @@ (Join(F, RC) :> D2) }

FileArgs == {RC, A1, RTGZ, Join(D, RC), Join(D, RTGZ), Join(D, A1)}
UploadArgs == {RC, A1, Join(D, RC), Join(D, RTGZ)}
UrlArgs == {RC, RTGZ, Join(F, RC), Join(F, RTGZ)}
DirArgs == {D}

NoCall == [op |-> "none", args |-> <<>>, err |-> NoErr, ret |-> <<>>, leaked |-> {},
           tar |-> <<>>, extracted |-> FALSE,
           pre |-> [disk |-> <<>>, dirs |-> {}, bucket |-> <<>>]]

Cur == State(disk, dirs, bucket, handles)

\* The state after a call with outcome o, and the record of the call.
Apply(op, args, o) ==
    /\ nops < MaxOps
    /\ nops' = nops + 1
    /\ disk' = o.st.disk
    /\ dirs' = o.st.dirs
    /\ bucket' = o.st.bucket
    /\ handles' = o.st.handles
    /\ prev' = last
    /\ last' = [op |-> op, args |-> args, err |-> o.err, ret |-> o.ret, leaked |-> o.leaked,
                tar |-> o.tar, extracted |-> o.extracted,
                pre |-> [disk |-> disk, dirs |-> dirs, bucket |-> bucket]]
    /\ UNCHANGED folder

Init ==
    /\ folder \in Folders
    /\ \E i \in InitDisks : disk = i.disk /\ dirs = i.dirs
    /\ bucket \in InitBuckets
    /\ handles = {}
    /\ last = NoCall
    /\ prev = NoCall
    /\ nops = 0

CallArchiveFile ==
    \E path \in FileArgs : Apply("archive_file", <<path>>, ArchiveFile(Cur, path))

CallExtract ==
    \E path \in FileArgs \cup DOMAIN disk, selfOk \in BOOLEAN :
        Apply("extract", <<path>>, Extract(Cur, path, selfOk))

CallUploadFile ==
    \E file \in UploadArgs, archive \in BOOLEAN, fails \in BOOLEAN :
        Apply("upload_file", <<file, archive, fails>>, UploadFile(Cur, folder, file, archive, fails))

CallDownloadFile ==
    \E url \in UrlArgs \cup DOMAIN bucket, to_path \in DirArgs, extract \in BOOLEAN,
       keepsFile \in BOOLEAN, selfOk \in BOOLEAN :
        Apply("download_file", <<url, to_path, extract>>,
              DownloadFile(Cur, url, to_path, extract, keepsFile, selfOk))

CallDeleteFile ==
    \E url \in UrlArgs : Apply("delete_file", <<url>>, DeleteFile(Cur, url))

Next ==
    \/ CallArchiveFile
    \/ CallExtract
    \/ CallUploadFile
    \/ CallDownloadFile
    \/ CallDeleteFile

Spec == Init /\ [][Next]_vars

-----------------------------------------------------------------------------
(* Properties of upload_file *)

UploadCalled == last.op = "upload_file"
UploadOk == UploadCalled /\ last.err = NoErr

\* The content of the transfer unit of upload_file(file, archive) called in a
\* state with local files dk: the file itself, or an archive whose only entry
\* is the file under its base name (an archive without entry when the archive
\* is written over the file itself).
TransferUnit(dk, file, archive, tar) ==
    IF ~archive THEN dk[file]
    ELSE IF tar = file THEN Tar(<<>>)
    ELSE Tar(<<Entry(Basename(file), dk[file])>>)

\* C1: after upload_file(file, archive) returns, for either value of archive,
\* no file exists at `file`, no file exists at the archive's path, and the
\* bucket holds under the returned key the content of the transfer unit,
\* whatever was stored under that key before.
Thm_C1 ==
    UploadOk =>
        /\ last.args[1] \notin DOMAIN disk
        /\ last.tar \notin DOMAIN disk
        /\ last.ret \in DOMAIN bucket
        /\ bucket[last.ret] = TransferUnit(last.pre.disk, last.args[1], last.args[2], last.tar)

\* An archived upload has replaced an object of different content, after a
\* plain upload had returned too.
Witness_C1 ==
    /\ UploadOk /\ last.args[2]
    /\ last.args[1] \in DOMAIN last.pre.disk
    /\ last.tar # last.args[1]
    /\ last.ret \in DOMAIN last.pre.bucket
    /\ last.pre.bucket[last.ret] # bucket[last.ret]
    /\ prev.op = "upload_file" /\ prev.err = NoErr /\ ~prev.args[2]

\* The path of the transfer unit as the claim describes it.
TransferPath(file, archive) ==
    IF archive THEN Join(Split(file)[1], ReSub(Split(file)[2])) ELSE file

\* The bucket differs from bk at most under key k.
OnlyKeyChanged(bk, k) ==
    /\ DOMAIN bucket \cup {k} = DOMAIN bk \cup {k}
    /\ \A x \in DOMAIN bucket \ {k} : bucket[x] = bk[x]

\* C2 as stated: the returned key is baseName(transferUnit) when the folder
\* is None and folder + "/" + baseName(transferUnit) for every other value of
\* the folder, and the object is stored under the returned key.
Orig_C2 ==
    UploadOk =>
        /\ last.tar = TransferPath(last.args[1], last.args[2])
        /\ last.ret = IF folder = NoFolder
                      THEN Basename(last.tar)
                      ELSE folder \o <<"/">> \o Basename(last.tar)
        /\ last.ret \in DOMAIN bucket
        /\ OnlyKeyChanged(last.pre.bucket, last.ret)

\* C2 amended: the returned key is baseName(transferUnit) when the folder is
\* None or the empty string, and folder + "/" + baseName(transferUnit) for a
\* non-empty folder; the object is stored under the returned key and no other
\* key of the bucket changes.
Thm_C2 ==
    UploadOk =>
        /\ last.tar = TransferPath(last.args[1], last.args[2])
        /\ last.ret = IF folder = NoFolder \/ Len(folder) = 0
                      THEN Basename(last.tar)
                      ELSE folder \o <<"/">> \o Basename(last.tar)
        /\ last.ret \in DOMAIN bucket
        /\ OnlyKeyChanged(last.pre.bucket, last.ret)

\* An archived upload from a directory returned a key below a folder.
Witness_C2 ==
    /\ UploadOk /\ last.args[2]
    /\ folder = F
    /\ Split(last.args[1])[1] = D
    /\ last.ret = F \o <<"/">> \o RTGZ

\* C3: when the transfer of upload_file fails for a file that exists, the
\* transfer error reaches the caller and nothing is cleaned up: the source
\* file is still on disk and, with archive=True, so is the archive made
\* before the transfer.
Thm_C3 ==
    (UploadCalled /\ last.args[3] /\ last.args[1] \in DOMAIN last.pre.disk) =>
        /\ last.err = "TransferError"
        /\ last.args[1] \in DOMAIN disk
        /\ last.args[2] => (last.tar \in DOMAIN disk /\ disk[last.tar].kind = "tar")
        /\ ~last.args[2] => disk = last.pre.disk
        /\ bucket = last.pre.bucket

\* The transfer of an archived upload failed and left the archive beside the
\* source file.
Witness_C3 ==
    /\ UploadCalled /\ last.args[3] /\ last.args[2]
    /\ last.err = "TransferError"
    /\ last.args[1] \in DOMAIN last.pre.disk
    /\ last.tar # last.args[1]
    /\ last.tar \notin DOMAIN last.pre.disk
    /\ {last.args[1], last.tar} \subseteq DOMAIN disk

-----------------------------------------------------------------------------
(* Properties of download_file *)

DownloadCalled == last.op = "download_file"
DownloadMissing == DownloadCalled /\ last.args[1] \notin DOMAIN last.pre.bucket

-----------------------------------------------------------------------------
(* Properties of _archive_file and _extract *)

ExtractCalled == last.op = "extract"
ExtractOk == ExtractCalled /\ last.err = NoErr

\* The members of the archive a call of _extract was given.
Members(call) == call.pre.disk[call.args[1]].entries

IsArchive(call) ==
    /\ call.args[1] \in DOMAIN call.pre.disk
    /\ call.pre.disk[call.args[1]].kind = "tar"

\* C5: _extract on an archive with no entry or with more than one entry fails
\* with the archive-shape error, leaves the archive in place and extracts
\* nothing: the local files are as before.
Thm_C5 ==
    (ExtractCalled /\ IsArchive(last) /\ Len(Members(last)) # 1) =>
        /\ last.err = "ArchiveShape"
        /\ disk = last.pre.disk
        /\ dirs = last.pre.dirs

\* _extract has failed on an archive with two entries after failing on an
\* archive with none.
Witness_C5 ==
    /\ ExtractCalled /\ IsArchive(last) /\ Len(Members(last)) = 2
    /\ last.err = "ArchiveShape"
    /\ prev.op = "extract" /\ IsArchive(prev) /\ Len(Members(prev)) = 0
    /\ prev.err = "ArchiveShape"

\* parentDir/entryName
InDir(parentDir, name) ==
    IF parentDir = <<>> THEN name ELSE parentDir \o <<"/">> \o name

HasConventionalExtension(name) ==
    \E i \in 2..(Len(name) - 1) :
        name[i] = "." /\ \A j \in (i+1)..Len(name) : IsWord(name[j])

ArchiveOk(call) ==
    /\ call.op = "archive_file" /\ call.err = NoErr
    /\ HasConventionalExtension(Basename(call.args[1]))

Orig_C8 == last.leaked = {}

\* C9 as stated: when _extract returns, a file exists at the returned path
\* and holds the content of the archive's only entry.
Orig_C9 ==
    ExtractOk =>
        /\ last.ret \in DOMAIN disk
        /\ disk[last.ret] = Members(last)[1].content

-----------------------------------------------------------------------------
(* upload_file followed by download_file *)

\* C10: for a file F with a conventional extension and either value a of the
\* flag, when upload_file(F, archive=a) has returned k and the next call is
\* download_file(k, dir, extract=a), the download returns dir/baseName(F), the
\* file at that path has the content F had, the downloaded archive is not
\* left in dir, and the bucket is as before the download, with an object
\* under k.
Thm_C10 ==
    ( /\ prev.op = "upload_file" /\ prev.err = NoErr
      /\ HasConventionalExtension(Basename(prev.args[1]))
      /\ DownloadCalled
      /\ last.args[1] = prev.ret
      /\ last.args[3] = prev.args[2] ) =>
        /\ last.err = NoErr
        /\ last.ret = InDir(last.args[2], Basename(prev.args[1]))
        /\ last.ret \in DOMAIN disk
        /\ disk[last.ret] = prev.pre.disk[prev.args[1]]
        /\ last.args[3] => InDir(last.args[2], Basename(prev.ret)) \notin DOMAIN disk
        /\ bucket = last.pre.bucket
        /\ prev.ret \in DOMAIN bucket

\* An archived upload below a folder has been downloaded and extracted.
Witness_C10 ==
    /\ prev.op = "upload_file" /\ prev.err = NoErr /\ prev.args[2]
    /\ HasConventionalExtension(Basename(prev.args[1]))
    /\ folder = F
    /\ DownloadCalled /\ last.args[1] = prev.ret /\ last.args[3]
    /\ last.err = NoErr
    /\ disk[last.ret] = prev.pre.disk[prev.args[1]]

====
